---- MODULE Spec2Model ----
(***************************************************************************)
(* A model of xlsxwriter/worksheet.py: the Worksheet object's cell table,  *)
(* dimension tracking, column metadata and the XML assembly pass.          *)
(*                                                                         *)
(* Representation of Python values:                                        *)
(*   - None, for the integer-valued fields and arguments (dimension        *)
(*     bounds, column widths, outline levels, return values), is the       *)
(*     integer None, which no coordinate, width or level passed takes;     *)
(*   - a Format object is a positive integer, its style index; the absent  *)
(*     format (None) is NoFormat;                                          *)
(*   - a dict is a function whose DOMAIN is the set of its keys;           *)
(*   - the defaultdict(dict) cell table is a function from the row keys    *)
(*     present to a function from the column keys present to a cell;       *)
(*   - the output file is the sequence of the elements written to it, each *)
(*     a record [kind, tag, attrs] with attrs a sequence of <<name,value>> *)
(*     pairs of strings.                                                   *)
(*                                                                         *)
(* op, ret and exc are the last call made, the value it returned and the   *)
(* exception it raised; how notes whether that call was a write_number     *)
(* that replaced an existing cell ("overwrite") or a set_column that got   *)
(* its columns in reverse order ("reversed").                              *)
(***************************************************************************)
EXTENDS Integers, Sequences, FiniteSets, TLC

\* self.xls_rowmax, self.xls_colmax
xls_rowmax == 1048576
xls_colmax == 16384

\* self.optimization and self.previous_row are set once, in __init__
optimization == 0
previous_row == 0

\* self.excel_version
excel_version == 2007

\* Python's None for integer fields and arguments, and the absent Format
None == -1000
NoFormat == 0

\* Bounds of the model
MaxCells == 2
MaxColinfo == 2

EmptyDict == <<>>

\* truth value of a Python integer-or-None
Truthy(x) == x # None /\ x # 0

\* d[k] = v on a dict
DictSet(d, k, v) == [x \in (DOMAIN d) \cup {k} |-> IF x = k THEN v ELSE d[x]]

VARIABLES
    dim_rowmin, dim_rowmax, dim_colmin, dim_colmax,
    colinfo, outline_col_level, col_size_changed, col_sizes, col_formats,
    table, row_spans,
    fh,
    op, ret, exc, how

vars == <<dim_rowmin, dim_rowmax, dim_colmin, dim_colmax,
          colinfo, outline_col_level, col_size_changed, col_sizes, col_formats,
          table, row_spans, fh, op, ret, exc, how>>

\* The worksheet object as one record
Self ==
    [dim_rowmin |-> dim_rowmin, dim_rowmax |-> dim_rowmax,
     dim_colmin |-> dim_colmin, dim_colmax |-> dim_colmax,
     colinfo |-> colinfo, outline_col_level |-> outline_col_level,
     col_size_changed |-> col_size_changed,
     col_sizes |-> col_sizes, col_formats |-> col_formats,
     table |-> table, row_spans |-> row_spans, fh |-> fh]

\* Worksheet.__init__
NewWorksheet ==
    [dim_rowmin |-> None, dim_rowmax |-> None,
     dim_colmin |-> None, dim_colmax |-> None,
     colinfo |-> <<>>, outline_col_level |-> 0,
     col_size_changed |-> 0,
     col_sizes |-> EmptyDict, col_formats |-> EmptyDict,
     table |-> EmptyDict, row_spans |-> EmptyDict, fh |-> <<>>]

-----------------------------------------------------------------------------
(* Worksheet._check_dimensions *)

\* check_dimensions with the maximum stored only when the minimum was not
\* (an elif for the second if of each pair)
check_dimensions_elif(self, row, col, ignore_row, ignore_col) ==
    IF row >= xls_rowmax \/ col >= xls_colmax
    THEN [ret |-> -1, self |-> self]
    ELSE
      LET s1 == IF ignore_row # 0 THEN self
                ELSE IF self.dim_rowmin = None \/ row < self.dim_rowmin
                THEN [self EXCEPT !.dim_rowmin = row]
                ELSE IF self.dim_rowmax = None \/ row > self.dim_rowmax
                THEN [self EXCEPT !.dim_rowmax = row] ELSE self
          s2 == IF ignore_col # 0 THEN s1
                ELSE IF s1.dim_colmin = None \/ col < s1.dim_colmin
                THEN [s1 EXCEPT !.dim_colmin = col]
                ELSE IF s1.dim_colmax = None \/ col > s1.dim_colmax
                THEN [s1 EXCEPT !.dim_colmax = col] ELSE s1
      IN [ret |-> 0, self |-> s2]

\* check_dimensions with the bounds tested after the values are stored
check_dimensions_late(self, row, col, ignore_row, ignore_col) ==
    LET s1 == IF ignore_row = 0
                 /\ (self.dim_rowmin = None \/ row < self.dim_rowmin)
              THEN [self EXCEPT !.dim_rowmin = row] ELSE self
        s2 == IF ignore_row = 0
                 /\ (s1.dim_rowmax = None \/ row > s1.dim_rowmax)
              THEN [s1 EXCEPT !.dim_rowmax = row] ELSE s1
        s3 == IF ignore_col = 0
                 /\ (s2.dim_colmin = None \/ col < s2.dim_colmin)
              THEN [s2 EXCEPT !.dim_colmin = col] ELSE s2
        s4 == IF ignore_col = 0
                 /\ (s3.dim_colmax = None \/ col > s3.dim_colmax)
              THEN [s3 EXCEPT !.dim_colmax = col] ELSE s3
    IN IF row >= xls_rowmax \/ col >= xls_colmax
       THEN [ret |-> -1, self |-> s4]
       ELSE [ret |-> 0, self |-> s4]

\* check_dimensions with the minimum stored on every accepted coordinate
check_dimensions_last(self, row, col, ignore_row, ignore_col) ==
    IF row >= xls_rowmax \/ col >= xls_colmax
    THEN [ret |-> -1, self |-> self]
    ELSE
      LET s1 == IF ignore_row = 0
                THEN [self EXCEPT !.dim_rowmin = row] ELSE self
          s2 == IF ignore_row = 0
                   /\ (s1.dim_rowmax = None \/ row > s1.dim_rowmax)
                THEN [s1 EXCEPT !.dim_rowmax = row] ELSE s1
          s3 == IF ignore_col = 0
                THEN [s2 EXCEPT !.dim_colmin = col] ELSE s2
          s4 == IF ignore_col = 0
                   /\ (s3.dim_colmax = None \/ col > s3.dim_colmax)
                THEN [s3 EXCEPT !.dim_colmax = col] ELSE s3
      IN [ret |-> 0, self |-> s4]

check_dimensions(self, row, col, ignore_row, ignore_col) ==
    IF row >= xls_rowmax \/ col >= xls_colmax
    THEN [ret |-> -1, self |-> self]
    ELSE IF ignore_row = 0 /\ ignore_col = 0 /\ optimization = 1
            /\ row < previous_row
    THEN [ret |-> -1, self |-> self]
    ELSE
      LET s1 == IF ignore_row = 0
                   /\ (self.dim_rowmin = None \/ row < self.dim_rowmin)
                THEN [self EXCEPT !.dim_rowmin = row] ELSE self
          s2 == IF ignore_row = 0
                   /\ (s1.dim_rowmax = None \/ row > s1.dim_rowmax)
                THEN [s1 EXCEPT !.dim_rowmax = row] ELSE s1
          s3 == IF ignore_col = 0
                   /\ (s2.dim_colmin = None \/ col < s2.dim_colmin)
                THEN [s2 EXCEPT !.dim_colmin = col] ELSE s2
          s4 == IF ignore_col = 0
                   /\ (s3.dim_colmax = None \/ col > s3.dim_colmax)
                THEN [s3 EXCEPT !.dim_colmax = col] ELSE s3
      IN [ret |-> 0, self |-> s4]

-----------------------------------------------------------------------------
(* Worksheet.write_number *)

\* the namedtuple Number(number, format)
cell_tuple(num, format) == [type |-> "Number", number |-> num, format |-> format]

\* self.table[row] on the defaultdict: a missing row key is created empty
table_row(tbl, row) == IF row \in DOMAIN tbl THEN tbl ELSE DictSet(tbl, row, EmptyDict)

\* write_number that keeps the cell a coordinate already holds
write_number_keep(self, row, col, num, format) ==
    LET chk == check_dimensions(self, row, col, 0, 0)
    IN IF chk.ret # 0
       THEN [ret |-> -1, self |-> chk.self]
       ELSE LET t1 == table_row(chk.self.table, row)
                t2 == IF col \in DOMAIN t1[row] THEN t1
                      ELSE [t1 EXCEPT ![row] =
                               DictSet(t1[row], col, cell_tuple(num, format))]
            IN [ret |-> 0, self |-> [chk.self EXCEPT !.table = t2]]

write_number(self, row, col, num, format) ==
    LET chk == check_dimensions(self, row, col, 0, 0)
    IN IF chk.ret # 0
       THEN [ret |-> -1, self |-> chk.self]
       ELSE LET t1 == table_row(chk.self.table, row)
                t2 == [t1 EXCEPT ![row] = DictSet(t1[row], col, cell_tuple(num, format))]
            IN [ret |-> 0, self |-> [chk.self EXCEPT !.table = t2]]

-----------------------------------------------------------------------------
(* Worksheet.set_column *)

\* ordered_cols without the swap
ordered_cols_asgiven(firstcol, lastcol) == <<firstcol, lastcol>>

\* "Ensure 2nd col is larger than first": the pair (firstcol, lastcol) after
\* the swap
ordered_cols(firstcol, lastcol) ==
    IF firstcol > lastcol THEN <<lastcol, firstcol>> ELSE <<firstcol, lastcol>>

\* col_ignore_flag that stores the dimension for any width, hidden or not
col_ignore_flag_anywidth(width, format, hidden) ==
    IF format # NoFormat \/ Truthy(width) THEN 0 ELSE 1

\* "Store the column dimension only in some conditions": ignore_col
col_ignore_flag(width, format, hidden) ==
    IF format # NoFormat \/ (Truthy(width) /\ hidden) THEN 0 ELSE 1

\* clamp_level without the upper limit
clamp_level_nomax(level) ==
    LET l1 == IF level = None THEN 0 ELSE level
    IN IF l1 < 0 THEN 0 ELSE l1

\* "Set the limits for the outline levels (0 <= x <= 7)"
clamp_level(level) ==
    LET l1 == IF level = None THEN 0 ELSE level
        l2 == IF l1 < 0 THEN 0 ELSE l1
        l3 == IF l2 > 7 THEN 7 ELSE l2
    IN l3

\* the two endpoint checks, in the order the code makes them: the second is
\* made on the state the first has left
check_endpoints(self, fc, lc, ignore_row, ignore_col) ==
    LET c1 == check_dimensions(self, 0, fc, ignore_row, ignore_col)
        c2 == check_dimensions(c1.self, 0, lc, ignore_row, ignore_col)
    IN IF c1.ret # 0 THEN [ret |-> -1, self |-> c1.self]
       ELSE IF c2.ret # 0 THEN [ret |-> -1, self |-> c2.self]
       ELSE [ret |-> 0, self |-> c2.self]

\* the loop "for col in range(firstcol, lastcol + 1)" over col_sizes and
\* col_formats
store_col_sizes(self, fc, lc, width, format) ==
    LET sizes == [c \in (DOMAIN self.col_sizes) \cup (fc..lc) |->
                    IF c \in fc..lc THEN width ELSE self.col_sizes[c]]
        formats == IF format # NoFormat
                   THEN [c \in (DOMAIN self.col_formats) \cup (fc..lc) |->
                           IF c \in fc..lc THEN format ELSE self.col_formats[c]]
                   ELSE self.col_formats
    IN [self EXCEPT !.col_sizes = sizes, !.col_formats = formats]

set_column(self, firstcol, lastcol, width, format, hidden, level) ==
    LET fc == ordered_cols(firstcol, lastcol)[1]
        lc == ordered_cols(firstcol, lastcol)[2]
        ignore_row == 1
        ignore_col == col_ignore_flag(width, format, hidden)
        chk == check_endpoints(self, fc, lc, ignore_row, ignore_col)
    IN IF chk.ret # 0 THEN [ret |-> -1, self |-> chk.self]
       ELSE
         LET s == chk.self
             lvl == clamp_level(level)
             ocl == IF lvl > s.outline_col_level THEN lvl ELSE s.outline_col_level
             entry == [firstcol |-> fc, lastcol |-> lc, width |-> width,
                       format |-> format, hidden |-> hidden, level |-> lvl]
             s1 == [s EXCEPT !.outline_col_level = ocl,
                             !.colinfo = Append(s.colinfo, entry),
                             !.col_size_changed = 1]
             w == IF hidden THEN 0 ELSE width
         IN [ret |-> 0, self |-> store_col_sizes(s1, fc, lc, w, format)]

-----------------------------------------------------------------------------
(* The XML methods.  An element written to the file is a record; the       *)
(* attribute values are the strings the XML writer puts in the file.       *)

Elem(kind, tag, attrs) == [kind |-> kind, tag |-> tag, attrs |-> attrs]

\* the XMLwriter primitives: each appends one element to the file
emit(self, el) == [self EXCEPT !.fh = Append(@, el)]
xml_declaration(self) == emit(self, Elem("declaration", "xml", <<>>))
xml_start_tag(self, tag, attrs) == emit(self, Elem("start", tag, attrs))
xml_end_tag(self, tag) == emit(self, Elem("end", tag, <<>>))
xml_empty_tag(self, tag, attrs) == emit(self, Elem("empty", tag, attrs))
xml_number_element(self, number, attrs) ==
    emit(self, Elem("number", "c", Append(attrs, <<"v", ToString(number)>>)))

\* Format._get_xf_index: a Format is represented by its style index
get_xf_index(format) == format

\* utility.xl_rowcol_to_cell: the A1-style reference of a zero-indexed cell
Letters == <<"A", "B", "C", "D", "E", "F", "G", "H", "I", "J", "K", "L", "M",
             "N", "O", "P", "Q", "R", "S", "T", "U", "V", "W", "X", "Y", "Z">>

RECURSIVE xl_col_to_name(_)
xl_col_to_name(n) ==
    IF n = 0 THEN ""
    ELSE xl_col_to_name((n - 1) \div 26) \o Letters[((n - 1) % 26) + 1]

xl_rowcol_to_cell(row, col) == xl_col_to_name(col + 1) \o ToString(row + 1)

\* Worksheet._write_worksheet
write_worksheet(self) ==
    LET schema == "http://schemas.openxmlformats.org/"
        base == << <<"xmlns", schema \o "spreadsheetml/2006/main">>,
                   <<"xmlns:r", schema \o "officeDocument/2006/relationships">> >>
        extra == << <<"xmlns:mc", schema \o "markup-compatibility/2006">>,
                    <<"xmlns:x14ac",
                      "http://schemas.microsoft.com/office/spreadsheetml/2009/9/ac">>,
                    <<"mc:Ignorable", "x14ac">> >>
    IN xml_start_tag(self, "worksheet",
                     IF excel_version = 2010 THEN base \o extra ELSE base)

\* _write_dimension with a cell range in every case but the first
dimension_ref_range(self) ==
    IF self.dim_rowmin = None /\ self.dim_colmin = None
    THEN "A1"
    ELSE IF self.dim_rowmin = None /\ self.dim_colmin # None
    THEN xl_rowcol_to_cell(0, self.dim_colmin) \o ":"
            \o xl_rowcol_to_cell(0, self.dim_colmax)
    ELSE xl_rowcol_to_cell(self.dim_rowmin, self.dim_colmin) \o ":"
            \o xl_rowcol_to_cell(self.dim_rowmax, self.dim_colmax)

\* Worksheet._write_dimension: the ref attribute
dimension_ref(self) ==
    IF self.dim_rowmin = None /\ self.dim_colmin = None
    THEN "A1"
    ELSE IF self.dim_rowmin = None /\ self.dim_colmin # None
    THEN IF self.dim_colmin = self.dim_colmax
         THEN xl_rowcol_to_cell(0, self.dim_colmin)
         ELSE xl_rowcol_to_cell(0, self.dim_colmin) \o ":"
                \o xl_rowcol_to_cell(0, self.dim_colmax)
    ELSE IF self.dim_rowmin = self.dim_rowmax
            /\ self.dim_colmin = self.dim_colmax
    THEN xl_rowcol_to_cell(self.dim_rowmin, self.dim_colmin)
    ELSE xl_rowcol_to_cell(self.dim_rowmin, self.dim_colmin) \o ":"
            \o xl_rowcol_to_cell(self.dim_rowmax, self.dim_colmax)

\* Worksheet._write_dimension
write_dimension(self) ==
    xml_empty_tag(self, "dimension", << <<"ref", dimension_ref(self)>> >>)

\* Worksheet._write_sheet_view
write_sheet_view(self) ==
    xml_empty_tag(self, "sheetView",
                  << <<"tabSelected", "1">>, <<"workbookViewId", "0">> >>)

\* Worksheet._write_sheet_views
write_sheet_views(self) ==
    xml_end_tag(write_sheet_view(xml_start_tag(self, "sheetViews", <<>>)),
                "sheetViews")

\* Worksheet._write_sheet_format_pr
write_sheet_format_pr(self) ==
    xml_empty_tag(self, "sheetFormatPr", << <<"defaultRowHeight", "15">> >>)

\* the column width in 256ths of a character, from a width in hundredths of
\* a user unit: int((float(width) * 7 + 5) / 7 * 256.0)
char_width_256(width100) == ((width100 * 7 + 500) * 256) \div 700

\* the width attribute: a number of 256ths, written as a fraction
width_attr(n256) == IF n256 = 0 THEN "0" ELSE ToString(n256) \o "/256"

\* Worksheet._write_col_info
write_col_info(self, cinfo) ==
    LET xf_index == IF cinfo.format # NoFormat
                    THEN get_xf_index(cinfo.format) ELSE 0
        \* the width in hundredths, with Excel's default 8.43
        width100 == IF cinfo.width = None
                    THEN IF ~cinfo.hidden THEN 843 ELSE 0
                    ELSE 100 * cinfo.width
        custom_width == IF (cinfo.width = None /\ ~cinfo.hidden) \/ width100 = 843
                        THEN 0 ELSE 1
        width == IF width100 > 0 THEN char_width_256(width100) ELSE 0
        a1 == << <<"min", ToString(cinfo.firstcol + 1)>>,
                 <<"max", ToString(cinfo.lastcol + 1)>>,
                 <<"width", width_attr(width)>> >>
        a2 == IF xf_index # 0 THEN Append(a1, <<"style", ToString(xf_index)>>) ELSE a1
        a3 == IF cinfo.hidden THEN Append(a2, <<"hidden", "1">>) ELSE a2
        a4 == IF custom_width # 0 THEN Append(a3, <<"customWidth", "1">>) ELSE a3
        a5 == IF cinfo.level # 0
              THEN Append(a4, <<"outlineLevel", ToString(cinfo.level)>>) ELSE a4
    IN xml_empty_tag(self, "col", a5)

\* the loop of _write_cols, from the i-th column range on
RECURSIVE write_col_infos(_, _)
write_col_infos(self, i) ==
    IF i > Len(self.colinfo) THEN self
    ELSE write_col_infos(write_col_info(self, self.colinfo[i]), i + 1)

\* Worksheet._write_cols
write_cols(self) ==
    IF self.colinfo = <<>> THEN self
    ELSE xml_end_tag(write_col_infos(xml_start_tag(self, "cols", <<>>), 1), "cols")

\* Worksheet._write_page_margins
write_page_margins(self) ==
    xml_empty_tag(self, "pageMargins",
                  << <<"left", "0.7">>, <<"right", "0.7">>, <<"top", "0.75">>,
                     <<"bottom", "0.75">>, <<"header", "0.3">>,
                     <<"footer", "0.3">> >>)

\* the loops "for col_num in range(dim_colmin, dim_colmax + 1)" of
\* _calculate_spans over one row: the pair <<span_min, span_max>> after the
\* columns from col_num on
RECURSIVE span_of_row(_, _, _, _, _)
span_of_row(cols, col_num, colmax, span_min, span_max) ==
    IF col_num > colmax THEN <<span_min, span_max>>
    ELSE IF col_num \in cols
    THEN IF span_min = None
         THEN span_of_row(cols, col_num + 1, colmax, col_num, col_num)
         ELSE span_of_row(cols, col_num + 1, colmax,
                          IF col_num < span_min THEN col_num ELSE span_min,
                          IF col_num > span_max THEN col_num ELSE span_max)
    ELSE span_of_row(cols, col_num + 1, colmax, span_min, span_max)

\* a row loop that carries the accumulated span over the end of a block
RECURSIVE spans_from_noreset(_, _, _, _, _)
spans_from_noreset(self, row_num, span_min, span_max, spans) ==
    IF row_num > self.dim_rowmax THEN spans
    ELSE
      LET mm == IF row_num \in DOMAIN self.table
                THEN span_of_row(DOMAIN self.table[row_num], self.dim_colmin,
                                 self.dim_colmax, span_min, span_max)
                ELSE <<span_min, span_max>>
      IN IF ((row_num + 1) % 16 = 0 \/ row_num = self.dim_rowmax)
            /\ mm[1] # None
         THEN spans_from_noreset(self, row_num + 1, mm[1], mm[2],
                         DictSet(spans, row_num \div 16,
                                 ToString(mm[1] + 1) \o ":" \o ToString(mm[2] + 1)))
         ELSE spans_from_noreset(self, row_num + 1, mm[1], mm[2], spans)

\* the row loop of _calculate_spans, from row_num on (self.comments is empty)
RECURSIVE spans_from(_, _, _, _, _)
spans_from(self, row_num, span_min, span_max, spans) ==
    IF row_num > self.dim_rowmax THEN spans
    ELSE
      LET mm == IF row_num \in DOMAIN self.table
                THEN span_of_row(DOMAIN self.table[row_num], self.dim_colmin,
                                 self.dim_colmax, span_min, span_max)
                ELSE <<span_min, span_max>>
      IN IF ((row_num + 1) % 16 = 0 \/ row_num = self.dim_rowmax)
            /\ mm[1] # None
         THEN spans_from(self, row_num + 1, None, mm[2] + 1,
                         DictSet(spans, row_num \div 16,
                                 ToString(mm[1] + 1) \o ":" \o ToString(mm[2] + 1)))
         ELSE spans_from(self, row_num + 1, mm[1], mm[2], spans)

\* Worksheet._calculate_spans
calculate_spans(self) ==
    [self EXCEPT !.row_spans = spans_from(self, self.dim_rowmin, None, None, EmptyDict)]

\* Worksheet._write_row, without row properties
write_row(self, r, spans) ==
    LET a1 == << <<"r", ToString(r + 1)>>, <<"spans", spans>> >>
        a2 == IF excel_version = 2010
              THEN Append(a1, <<"x14ac:dyDescent", "0.25">>) ELSE a1
    IN xml_start_tag(self, "row", a2)

\* Worksheet._write_cell (self.set_rows is empty)
write_cell(self, row, col, cell) ==
    LET a1 == << <<"r", xl_rowcol_to_cell(row, col)>> >>
        a2 == IF cell.format # NoFormat
              THEN Append(a1, <<"s", ToString(get_xf_index(cell.format))>>)
              ELSE IF col \in DOMAIN self.col_formats
              THEN Append(a1, <<"s", ToString(get_xf_index(self.col_formats[col]))>>)
              ELSE a1
    IN xml_number_element(self, cell.number, a2)

\* the cell loop of _write_rows over one row, from col_num on:
\* self.table[row_num][col_num] raises KeyError for a column the row lacks
RECURSIVE write_cells_from(_, _, _)
write_cells_from(self, row_num, col_num) ==
    IF col_num > self.dim_colmax THEN [exc |-> "", self |-> self]
    ELSE IF col_num \notin DOMAIN self.table[row_num]
    THEN [exc |-> "KeyError", self |-> self]
    ELSE write_cells_from(
             write_cell(self, row_num, col_num, self.table[row_num][col_num]),
             row_num, col_num + 1)

\* the row loop of _write_rows, from row_num on (self.set_rows and
\* self.comments are empty, so a row is processed when self.table[row_num],
\* which creates the row in the defaultdict, is not empty)
RECURSIVE write_rows_from(_, _)
write_rows_from(self, row_num) ==
    IF row_num > self.dim_rowmax THEN [exc |-> "", self |-> self]
    ELSE
      LET s1 == [self EXCEPT !.table = table_row(self.table, row_num)]
          span_index == row_num \div 16
      IN IF DOMAIN s1.table[row_num] = {}
         THEN write_rows_from(s1, row_num + 1)
         ELSE IF span_index \notin DOMAIN s1.row_spans
         THEN [exc |-> "KeyError", self |-> s1]
         ELSE
           LET s2 == write_row(s1, row_num, s1.row_spans[span_index])
               cells == write_cells_from(s2, row_num, s2.dim_colmin)
           IN IF cells.exc # "" THEN cells
              ELSE write_rows_from(xml_end_tag(cells.self, "row"), row_num + 1)

\* Worksheet._write_rows
write_rows(self) == write_rows_from(calculate_spans(self), self.dim_rowmin)

\* Worksheet._write_sheet_data
write_sheet_data(self) ==
    IF self.dim_rowmin = None
    THEN [exc |-> "", self |-> xml_empty_tag(self, "sheetData", <<>>)]
    ELSE LET rows == write_rows(xml_start_tag(self, "sheetData", <<>>))
         IN IF rows.exc # "" THEN rows
            ELSE [exc |-> "", self |-> xml_end_tag(rows.self, "sheetData")]

\* Worksheet._assemble_xml_file: an exception ends the pass where it is raised
assemble_xml_file(self) ==
    LET s1 == xml_declaration(self)
        s2 == write_worksheet(s1)
        s3 == write_dimension(s2)
        s4 == write_sheet_views(s3)
        s5 == write_sheet_format_pr(s4)
        s6 == write_cols(s5)
        data == write_sheet_data(s6)
    IN IF data.exc # "" THEN data
       ELSE [exc |-> "",
             self |-> xml_end_tag(write_page_margins(data.self), "worksheet")]

-----------------------------------------------------------------------------
(* The calls a client makes *)

\* the coordinates of the cells the table holds
Cells(tbl) == UNION {{<<r, c>> : c \in DOMAIN tbl[r]} : r \in DOMAIN tbl}

NumCells(tbl) == Cardinality(Cells(tbl))

Store(s) ==
    /\ dim_rowmin' = s.dim_rowmin
    /\ dim_rowmax' = s.dim_rowmax
    /\ dim_colmin' = s.dim_colmin
    /\ dim_colmax' = s.dim_colmax
    /\ colinfo' = s.colinfo
    /\ outline_col_level' = s.outline_col_level
    /\ col_size_changed' = s.col_size_changed
    /\ col_sizes' = s.col_sizes
    /\ col_formats' = s.col_formats
    /\ table' = s.table
    /\ row_spans' = s.row_spans
    /\ fh' = s.fh

Init ==
    /\ dim_rowmin = NewWorksheet.dim_rowmin
    /\ dim_rowmax = NewWorksheet.dim_rowmax
    /\ dim_colmin = NewWorksheet.dim_colmin
    /\ dim_colmax = NewWorksheet.dim_colmax
    /\ colinfo = NewWorksheet.colinfo
    /\ outline_col_level = NewWorksheet.outline_col_level
    /\ col_size_changed = NewWorksheet.col_size_changed
    /\ col_sizes = NewWorksheet.col_sizes
    /\ col_formats = NewWorksheet.col_formats
    /\ table = NewWorksheet.table
    /\ row_spans = NewWorksheet.row_spans
    /\ fh = NewWorksheet.fh
    /\ op = "__init__"
    /\ ret = 0
    /\ exc = ""
    /\ how = ""

\* a call of write_number(row, col, num, format)
WriteNumberCall(row, col, num, format) ==
    LET r == write_number(Self, row, col, num, format)
    IN /\ NumCells(r.self.table) <= MaxCells
       /\ Store(r.self)
       /\ op' = "write_number"
       /\ ret' = r.ret
       /\ exc' = ""
       /\ how' = IF r.ret = 0 /\ <<row, col>> \in Cells(table)
                 THEN "overwrite" ELSE ""

\* a call of set_column(firstcol, lastcol, width, format, hidden, level), with
\* at most limit column ranges stored
SetColumnCall(limit, firstcol, lastcol, width, format, hidden, level) ==
    LET r == set_column(Self, firstcol, lastcol, width, format, hidden, level)
    IN /\ Len(r.self.colinfo) <= limit
       /\ Store(r.self)
       /\ op' = "set_column"
       /\ ret' = r.ret
       /\ exc' = ""
       /\ how' = IF firstcol > lastcol THEN "reversed" ELSE ""

\* the passes written to the file
NumPasses(f) == Cardinality({i \in DOMAIN f : f[i].kind = "declaration"})

\* a call of _assemble_xml_file()
AssembleCall(limit) ==
    LET r == assemble_xml_file(Self)
    IN /\ NumPasses(fh) < limit
       /\ Store(r.self)
       /\ op' = "_assemble_xml_file"
       /\ ret' = None
       /\ exc' = r.exc
       /\ how' = ""

-----------------------------------------------------------------------------
(* Spec: cell writes at the corners of the worksheet and just outside it,  *)
(* between column configuration calls that succeed, fail, and fail half    *)
(* way.                                                                    *)

RowArgs == {0, xls_rowmax - 1, xls_rowmax}
ColArgs == {0, xls_colmax - 1, xls_colmax}
NumArgs == {1, 2}
FormatArgs == {NoFormat, 1}

WriteNumber ==
    \E row \in RowArgs, col \in ColArgs, num \in NumArgs, format \in FormatArgs :
        WriteNumberCall(row, col, num, format)

SetColumn ==
    \E firstcol \in {2, xls_colmax}, lastcol \in {2, xls_colmax},
       format \in FormatArgs :
        SetColumnCall(MaxColinfo, firstcol, lastcol, 10, format, FALSE, 0)

Next == WriteNumber \/ SetColumn

Spec == Init /\ [][Next]_vars

-----------------------------------------------------------------------------
(* SpecColumns: column configuration calls with every combination of       *)
(* width, format and hidden, in both orders of the columns, around one     *)
(* cell write.                                                             *)

\* Bound of SpecColumns: the column ranges stored
MaxRanges == 1

ColumnArgs == {0, 2, xls_colmax}
WidthArgs == {None, 0, 10}

ColumnsWriteNumber ==
    \E col \in {1, xls_colmax} : WriteNumberCall(0, col, 1, NoFormat)

ColumnsSetColumn ==
    \E firstcol \in ColumnArgs, lastcol \in ColumnArgs, width \in WidthArgs,
       format \in FormatArgs, hidden \in BOOLEAN :
        SetColumnCall(MaxRanges, firstcol, lastcol, width, format, hidden, 0)

NextColumns == ColumnsWriteNumber \/ ColumnsSetColumn

SpecColumns == Init /\ [][NextColumns]_vars

-----------------------------------------------------------------------------
(* SpecOutline: column configuration calls with outline levels below,      *)
(* inside and above 0..7, and None.                                        *)

LevelArgs == {None, -1, 0, 1, 3, 7, 8, 10}

OutlineWriteNumber ==
    \E col \in {1, xls_colmax} : WriteNumberCall(0, col, 1, NoFormat)

OutlineSetColumn ==
    \E lastcol \in {0, xls_colmax}, format \in FormatArgs, level \in LevelArgs :
        SetColumnCall(MaxColinfo, 0, lastcol, 10, format, FALSE, level)

NextOutline == OutlineWriteNumber \/ OutlineSetColumn

SpecOutline == Init /\ [][NextOutline]_vars

-----------------------------------------------------------------------------
(* SpecAssemble: a worksheet is built from a few cells and column ranges   *)
(* and then written.  As the enclosing workbook does, the client makes     *)
(* every write_number and set_column call before the first pass.           *)

\* Bound of SpecAssemble: the passes written to one file
MaxPasses == 1

\* <<row, col, num, format>>
CellCalls ==
    {<<0, 0, 1, NoFormat>>, <<0, 1, 2, 1>>, <<1, 1, 1, NoFormat>>,
     <<2, 3, 1, NoFormat>>, <<5, 5, 1, NoFormat>>, <<xls_rowmax, 0, 1, NoFormat>>}

\* <<firstcol, lastcol, width, format, hidden, level>>
ColumnCalls ==
    {<<0, 3, 10, NoFormat, FALSE, 0>>, <<1, 1, None, 1, FALSE, 0>>,
     <<3, 0, 10, 1, FALSE, 0>>, <<5, 5, 10, NoFormat, TRUE, 1>>,
     <<0, xls_colmax, None, NoFormat, TRUE, 0>>}

AssembleWriteNumber ==
    \E c \in CellCalls :
        fh = <<>> /\ WriteNumberCall(c[1], c[2], c[3], c[4])

AssembleSetColumn ==
    \E c \in ColumnCalls :
        fh = <<>> /\ SetColumnCall(MaxColinfo, c[1], c[2], c[3], c[4], c[5], c[6])

AssembleXmlFile == AssembleCall(MaxPasses)

NextAssemble == AssembleWriteNumber \/ AssembleSetColumn \/ AssembleXmlFile

SpecAssemble == Init /\ [][NextAssemble]_vars

-----------------------------------------------------------------------------
(* SpecSpans: cells are written into rows of three blocks of 16 rows, on   *)
(* both sides of the block ends at rows 15 and 31, and the worksheet is    *)
(* written more than once, with cells and column ranges added between the  *)
(* passes (nothing in the worksheet forbids a call after a pass).          *)

\* Bound of SpecSpans: the passes written to one file
MaxSpanPasses == 2

\* <<row, col>>
SpanCells == {<<0, 2>>, <<3, 7>>, <<15, 4>>, <<16, 4>>, <<17, 0>>, <<33, 5>>}

\* <<firstcol, lastcol>>
SpanColumns == {<<0, 9>>}

SpansWriteNumber ==
    \E c \in SpanCells : WriteNumberCall(c[1], c[2], 1, NoFormat)

SpansSetColumn ==
    \E c \in SpanColumns :
        SetColumnCall(MaxRanges, c[1], c[2], 10, NoFormat, FALSE, 0)

SpansAssemble == AssembleCall(MaxSpanPasses)

NextSpans == SpansWriteNumber \/ SpansSetColumn \/ SpansAssemble

SpecSpans == Init /\ [][NextSpans]_vars

-----------------------------------------------------------------------------
(* Properties of write_number and of the dimension, under Spec *)

\* coordinates inside the worksheet and outside it
InRows == {0, 1, xls_rowmax - 2, xls_rowmax - 1}
InCols == {0, 1, xls_colmax - 2, xls_colmax - 1}
OutRows == {xls_rowmax, xls_rowmax + 1}
OutCols == {xls_colmax, xls_colmax + 1}
OutCoords ==
    {rc \in (InRows \cup OutRows) \X (InCols \cup OutCols) :
        rc[1] >= xls_rowmax \/ rc[2] >= xls_colmax}

\* C1: from every reachable state, write_number at any coordinate inside the
\* worksheet (row < 1048576, col < 16384) returns 0, and in the state it
\* leaves the row lies within [dim_rowmin, dim_rowmax] and the column within
\* [dim_colmin, dim_colmax], all four defined.
C1_WriteInBounds ==
    \A row \in InRows, col \in InCols, num \in NumArgs, format \in FormatArgs :
        LET r == write_number(Self, row, col, num, format)
        IN /\ r.ret = 0
           /\ r.self.dim_rowmin # None /\ r.self.dim_rowmax # None
           /\ r.self.dim_colmin # None /\ r.self.dim_colmax # None
           /\ r.self.dim_rowmin <= row /\ row <= r.self.dim_rowmax
           /\ r.self.dim_colmin <= col /\ col <= r.self.dim_colmax

\* a write at the last row and column has succeeded, after one at the first
C1_Witness ==
    /\ op = "write_number" /\ ret = 0
    /\ dim_rowmin = 0 /\ dim_rowmax = xls_rowmax - 1
    /\ dim_colmin = 0 /\ dim_colmax = xls_colmax - 1
    /\ xls_colmax - 1 \in DOMAIN table[xls_rowmax - 1]

\* C2: from every reachable state, write_number at a coordinate with
\* row >= 1048576 or col >= 16384 returns -1 and leaves the four dimension
\* bounds and the cell table as they were; the same call made again on the
\* state it left does the same.
C2_WriteOutOfBounds ==
    \A rc \in OutCoords, num \in NumArgs, format \in FormatArgs :
        LET r == write_number(Self, rc[1], rc[2], num, format)
            again == write_number(r.self, rc[1], rc[2], num, format)
        IN /\ r.ret = -1
           /\ r.self.dim_rowmin = dim_rowmin /\ r.self.dim_rowmax = dim_rowmax
           /\ r.self.dim_colmin = dim_colmin /\ r.self.dim_colmax = dim_colmax
           /\ r.self.table = table
           /\ again.ret = -1
           /\ again.self = r.self

\* a write has just failed on a worksheet that holds cells
C2_Witness ==
    /\ op = "write_number" /\ ret = -1
    /\ NumCells(table) > 0
    /\ dim_rowmin # None /\ dim_colmin # None

\* the bounds of each axis are defined together and in order
DimOrdered ==
    /\ dim_rowmin # None => (dim_rowmax # None /\ dim_rowmin <= dim_rowmax)
    /\ dim_colmin # None => (dim_colmax # None /\ dim_colmin <= dim_colmax)

\* a step leaves every defined bound defined, no minimum larger and no
\* maximum smaller
DimWidens ==
    /\ dim_rowmin # None => (dim_rowmin' # None /\ dim_rowmin' <= dim_rowmin)
    /\ dim_rowmax # None => (dim_rowmax' # None /\ dim_rowmax' >= dim_rowmax)
    /\ dim_colmin # None => (dim_colmin' # None /\ dim_colmin' <= dim_colmin)
    /\ dim_colmax # None => (dim_colmax' # None /\ dim_colmax' >= dim_colmax)

\* C4: in every reachable state a defined dim_rowmin comes with a defined
\* dim_rowmax >= dim_rowmin, likewise for the columns, and no call (failing
\* ones included) shrinks the dimension or undefines a bound.
C4_DimensionMonotone == []DimOrdered /\ [][DimWidens]_vars

\* both axes have been widened from a single coordinate to a proper range
C4_Witness ==
    /\ dim_rowmin # None /\ dim_rowmin < dim_rowmax
    /\ dim_colmin # None /\ dim_colmin < dim_colmax

\* C8: in every reachable state, writing (v2, s2) to a coordinate that
\* already holds a cell succeeds, leaves the table with the same coordinates,
\* the cell (v2, s2) at that coordinate and every other cell as it was.
C8_LastWriteWins ==
    \A rc \in Cells(table), num \in NumArgs, format \in FormatArgs :
        LET r == write_number(Self, rc[1], rc[2], num, format)
            t == r.self.table
        IN /\ r.ret = 0
           /\ Cells(t) = Cells(table)
           /\ t[rc[1]][rc[2]] = cell_tuple(num, format)
           /\ \A o \in Cells(table) \ {rc} : t[o[1]][o[2]] = table[o[1]][o[2]]

\* a write has just replaced an existing cell, next to another cell
C8_Witness ==
    /\ op = "write_number" /\ ret = 0 /\ how = "overwrite"
    /\ NumCells(table) = 2

-----------------------------------------------------------------------------
(* Properties of set_column, under SpecColumns and SpecOutline *)

InColumns == {0, 1, 3}

Min2(a, b) == IF a < b THEN a ELSE b
Max2(a, b) == IF a > b THEN a ELSE b

\* C3: a set_column call that returns -1 leaves the dimension, the column
\* ranges, the per-column width and format maps and the running maximum
\* outline level as they were.
C3_SetColumnAtomic ==
    [][(op' = "set_column" /\ ret' = -1) =>
         /\ dim_colmin' = dim_colmin /\ dim_colmax' = dim_colmax
         /\ dim_rowmin' = dim_rowmin /\ dim_rowmax' = dim_rowmax
         /\ colinfo' = colinfo
         /\ col_sizes' = col_sizes /\ col_formats' = col_formats
         /\ outline_col_level' = outline_col_level]_vars

\* whether set_column is to store its columns in the dimension
Records(width, format, hidden) ==
    format # NoFormat \/ (width # None /\ width # 0 /\ hidden)

\* C5: from every reachable state, a set_column call inside the worksheet
\* succeeds; with a format, or with a non-zero width and hidden, it leaves
\* dim_colmin/dim_colmax widened to include both columns, and otherwise as
\* they were; every set_column call, failing ones included, leaves
\* dim_rowmin/dim_rowmax as they were.
C5_ColumnDimension ==
    /\ \A firstcol \in InColumns, lastcol \in InColumns, width \in WidthArgs,
          format \in FormatArgs, hidden \in BOOLEAN :
        LET r == set_column(Self, firstcol, lastcol, width, format, hidden, 0)
            lo == Min2(firstcol, lastcol)
            hi == Max2(firstcol, lastcol)
        IN /\ r.ret = 0
           /\ IF Records(width, format, hidden)
              THEN /\ r.self.dim_colmin =
                        (IF dim_colmin = None THEN lo ELSE Min2(lo, dim_colmin))
                   /\ r.self.dim_colmax =
                        (IF dim_colmax = None THEN hi ELSE Max2(hi, dim_colmax))
              ELSE /\ r.self.dim_colmin = dim_colmin
                   /\ r.self.dim_colmax = dim_colmax
    /\ \A firstcol \in ColumnArgs, lastcol \in ColumnArgs, width \in WidthArgs,
          format \in FormatArgs, hidden \in BOOLEAN :
        LET r == set_column(Self, firstcol, lastcol, width, format, hidden, 0)
        IN /\ r.self.dim_rowmin = dim_rowmin
           /\ r.self.dim_rowmax = dim_rowmax

\* a width-only range over columns 0..2 has been stored and the column
\* dimension is still that of the one cell written, in column 1
C5_Witness ==
    /\ op = "set_column" /\ ret = 0
    /\ Len(colinfo) = 1
    /\ colinfo[1].firstcol = 0 /\ colinfo[1].lastcol = 2
    /\ colinfo[1].width = 10 /\ colinfo[1].format = NoFormat
    /\ ~colinfo[1].hidden
    /\ dim_colmin = 1 /\ dim_colmax = 1
    /\ dim_rowmin = 0 /\ dim_rowmax = 0

\* set_column(a, b, ...) and set_column(b, a, ...) agree, the range stored is
\* (b, a), and the columns b..a, and they alone, get the width w(width, hidden)
Normalizes(w(_, _)) ==
    \A a \in InColumns, b \in InColumns, width \in WidthArgs,
       format \in FormatArgs, hidden \in BOOLEAN :
        a > b =>
          LET r == set_column(Self, a, b, width, format, hidden, 0)
              q == set_column(Self, b, a, width, format, hidden, 0)
              last == r.self.colinfo[Len(r.self.colinfo)]
          IN /\ r = q
             /\ r.ret = 0
             /\ Len(r.self.colinfo) = Len(colinfo) + 1
             /\ last.firstcol = b /\ last.lastcol = a
             /\ DOMAIN r.self.col_sizes = (DOMAIN col_sizes) \cup (b..a)
             /\ \A c \in b..a : r.self.col_sizes[c] = w(width, hidden)
             /\ \A c \in (DOMAIN col_sizes) \ (b..a) :
                    r.self.col_sizes[c] = col_sizes[c]

WidthGiven(width, hidden) == width
WidthStored(width, hidden) == IF hidden THEN 0 ELSE width

\* C6 as claimed: reversed columns are normalized and every column of the
\* range gets the width passed.
C6_NormalizesAsClaimed == Normalizes(WidthGiven)

\* C6: from every reachable state and for all columns a > b inside the
\* worksheet, set_column(a, b, ...) leaves the state set_column(b, a, ...)
\* leaves; the range stored has first = b and last = a; every column of b..a,
\* and no other, gets its per-column width set: to the width passed, or to 0
\* when hidden is set.
C6_Normalizes == Normalizes(WidthStored)

\* set_column(2, 0, 10) has been made: the range stored is (0, 2) and the
\* columns 0, 1 and 2 have width 10
C6_Witness ==
    /\ op = "set_column" /\ ret = 0 /\ how = "reversed"
    /\ colinfo[Len(colinfo)].firstcol = 0 /\ colinfo[Len(colinfo)].lastcol = 2
    /\ DOMAIN col_sizes = {0, 1, 2}
    /\ \A c \in {0, 1, 2} : col_sizes[c] = 10

\* the largest level stored in the column ranges, 0 when there are none
RECURSIVE MaxLevel(_)
MaxLevel(ci) ==
    IF ci = <<>> THEN 0
    ELSE Max2(ci[Len(ci)].level, MaxLevel(SubSeq(ci, 1, Len(ci) - 1)))

\* the level set_column is to store for a level passed
Clamped(level) ==
    IF level = None \/ level < 0 THEN 0
    ELSE IF level > 7 THEN 7 ELSE level

OutlineLevelsHold ==
    /\ \A i \in DOMAIN colinfo : colinfo[i].level \in 0..7
    /\ outline_col_level = MaxLevel(colinfo)
    /\ \A level \in LevelArgs \cup {-2, 6, 9} :
        LET r == set_column(Self, 0, 0, 10, NoFormat, FALSE, level)
        IN /\ r.ret = 0
           /\ r.self.colinfo[Len(r.self.colinfo)].level = Clamped(level)

\* C7: set_column stores the outline level clamped to 0..7 (None and
\* negative levels as 0, levels above 7 as 7); in every reachable state each
\* stored range has a level in 0..7 and outline_col_level is the largest of
\* them (0 with no range), and no call lowers outline_col_level.
C7_OutlineLevel ==
    []OutlineLevelsHold /\ [][outline_col_level' >= outline_col_level]_vars

\* a range of level 7 (from 10) is followed by one of level 0 (from -1 or
\* None) and the running maximum is still 7
C7_Witness ==
    /\ op = "set_column" /\ ret = 0
    /\ Len(colinfo) = 2
    /\ colinfo[1].level = 7 /\ colinfo[2].level = 0
    /\ outline_col_level = 7

-----------------------------------------------------------------------------
(* Properties of the XML assembly, under SpecAssemble *)

\* the reference of a cell of the columns A..F, spelled out
A1Name(row, col) == <<"A", "B", "C", "D", "E", "F">>[col + 1] \o ToString(row + 1)

\* the dimension reference the worksheet is to be given
ExpectedRef ==
    IF dim_rowmin = None /\ dim_colmin = None THEN "A1"
    ELSE IF dim_rowmin = None
    THEN IF dim_colmin = dim_colmax THEN A1Name(0, dim_colmin)
         ELSE A1Name(0, dim_colmin) \o ":" \o A1Name(0, dim_colmax)
    ELSE IF dim_rowmin = dim_rowmax /\ dim_colmin = dim_colmax
    THEN A1Name(dim_rowmin, dim_colmin)
    ELSE A1Name(dim_rowmin, dim_colmin) \o ":" \o A1Name(dim_rowmax, dim_colmax)

\* C9: in every reachable state the dimension reference is "A1" with no
\* bound set, the row-0 cell or range over dim_colmin..dim_colmax with only
\* column bounds set, the single cell (dim_rowmin, dim_colmin) when both axes
\* have min = max, and the range from (dim_rowmin, dim_colmin) to
\* (dim_rowmax, dim_colmax) otherwise ("F6" for the one cell (5,5), "A1:D3"
\* for (0,0)..(2,3)); every dimension element written carries it; and row
\* bounds are never defined without column bounds.
C9_DimensionRef ==
    /\ dimension_ref(Self) = ExpectedRef
    /\ dim_rowmin # None => dim_colmin # None
    /\ <<dim_rowmin, dim_rowmax, dim_colmin, dim_colmax>> = <<5, 5, 5, 5>>
          => dimension_ref(Self) = "F6"
    /\ <<dim_rowmin, dim_rowmax, dim_colmin, dim_colmax>> = <<0, 2, 0, 3>>
          => dimension_ref(Self) = "A1:D3"
    /\ fh # <<>> => \E i \in DOMAIN fh : fh[i].tag = "dimension"
    /\ \A i \in DOMAIN fh :
          fh[i].tag = "dimension" =>
              fh[i] = Elem("empty", "dimension", << <<"ref", ExpectedRef>> >>)

\* the worksheet with the one cell (5,5) has been written with dimension F6
C9_Witness ==
    /\ op = "_assemble_xml_file"
    /\ Cells(table) = {<<5, 5>>}
    /\ \E i \in DOMAIN fh :
          fh[i] = Elem("empty", "dimension", << <<"ref", "F6">> >>)

\* the elements of the last pass written to the file
LastPass ==
    LET starts == {i \in DOMAIN fh : fh[i].kind = "declaration"}
        start == CHOOSE i \in starts : \A j \in starts : j <= i
    IN SubSeq(fh, start, Len(fh))

IsTopLevel(el) == el.tag \notin {"col", "row", "c"}
IsCol(el) == el.tag = "col"

KindTag(seq) == [i \in DOMAIN seq |-> <<seq[i].kind, seq[i].tag>>]

\* the top-level elements a pass is to write, in order
ExpectedTopLevel ==
    << <<"declaration", "xml">>, <<"start", "worksheet">>,
       <<"empty", "dimension">>, <<"start", "sheetViews">>,
       <<"empty", "sheetView">>, <<"end", "sheetViews">>,
       <<"empty", "sheetFormatPr">> >>
    \o (IF colinfo # <<>> THEN << <<"start", "cols">>, <<"end", "cols">> >>
        ELSE <<>>)
    \o (IF dim_rowmin = None THEN << <<"empty", "sheetData">> >>
        ELSE << <<"start", "sheetData">>, <<"end", "sheetData">> >>)
    \o << <<"empty", "pageMargins">>, <<"end", "worksheet">> >>

\* C10: a pass writes the XML declaration, the worksheet start, dimension,
\* sheetViews with one sheetView, sheetFormatPr, cols, sheetData,
\* pageMargins and the worksheet end, in this order and nothing after; cols
\* is written exactly when a column range is stored, with one col element
\* per range in call order; sheetData is an empty element exactly when no
\* row bound is defined.
C10_EmissionOrder ==
    fh # <<>> =>
      LET cols == SelectSeq(LastPass, IsCol)
      IN /\ KindTag(SelectSeq(LastPass, IsTopLevel)) = ExpectedTopLevel
         /\ Len(cols) = Len(colinfo)
         /\ \A i \in DOMAIN cols :
               /\ cols[i].attrs[1] = <<"min", ToString(colinfo[i].firstcol + 1)>>
               /\ cols[i].attrs[2] = <<"max", ToString(colinfo[i].lastcol + 1)>>

IsRowPart(el) == el.tag \in {"row", "c"}

\* kind, tag and r attribute (the row number or cell reference) of row and
\* cell elements
RowKey(seq) ==
    [i \in DOMAIN seq |->
        <<seq[i].kind, seq[i].tag,
          IF seq[i].attrs = <<>> THEN "" ELSE seq[i].attrs[1][2]>>]

\* the cells of the columns cols of a row, in ascending column order
RECURSIVE ExpectedCells(_, _)
ExpectedCells(row, cols) ==
    IF cols = {} THEN <<>>
    ELSE LET c == CHOOSE x \in cols : \A y \in cols : x <= y
         IN << <<"number", "c", A1Name(row, c)>> >>
            \o ExpectedCells(row, cols \ {c})

\* the row and cell elements sheetData is to hold, from row on
RECURSIVE ExpectedRows(_)
ExpectedRows(row) ==
    IF row > dim_rowmax THEN <<>>
    ELSE IF row \in DOMAIN table /\ DOMAIN table[row] # {}
    THEN << <<"start", "row", ToString(row + 1)>> >>
         \o ExpectedCells(row, DOMAIN table[row])
         \o << <<"end", "row", "">> >>
         \o ExpectedRows(row + 1)
    ELSE ExpectedRows(row + 1)

\* C11: a pass over a worksheet with a row bound defined raises nothing and
\* writes, for the rows dim_rowmin..dim_rowmax in ascending order, for each
\* row that holds cells a row start, the cells the row holds (all of them,
\* no others) in ascending column order and the row end, and nothing for the
\* rows that hold none.
C11_RowsEmitted ==
    (op = "_assemble_xml_file" /\ dim_rowmin # None) =>
        /\ exc = ""
        /\ RowKey(SelectSeq(LastPass, IsRowPart)) = ExpectedRows(dim_rowmin)
-----------------------------------------------------------------------------
(* Properties of the row spans, under SpecSpans *)

\* the columns of the cells held by the rows of block b inside the row bounds
BlockCols(b) ==
    {rc[2] : rc \in {x \in Cells(table) :
                        /\ x[1] \div 16 = b
                        /\ dim_rowmin <= x[1] /\ x[1] <= dim_rowmax}}

\* the span map the worksheet is to be given: an entry for the blocks that
\* hold a cell, from the block's own smallest to its own largest column
ExpectedSpans ==
    LET blocks == {b \in {r \div 16 : r \in DOMAIN table} : BlockCols(b) # {}}
    IN [b \in blocks |->
           LET m == CHOOSE x \in BlockCols(b) : \A y \in BlockCols(b) : x <= y
               M == CHOOSE x \in BlockCols(b) : \A y \in BlockCols(b) : x >= y
           IN ToString(m + 1) \o ":" \o ToString(M + 1)]

\* span maps an earlier pass may have left
StaleSpans == {5 :> "3:8", 0 :> "1:9" @@ 1 :> "1:9"}

\* C12: in every state with a row bound defined, computing the spans gives a
\* map with an entry for exactly the blocks of 16 rows that hold a cell
\* inside the row bounds, each entry "(m+1):(M+1)" for the smallest and the
\* largest column m and M of the cells of that block alone; the map does not
\* depend on the map an earlier pass left, and it is the map the worksheet
\* holds after a pass.
C12_SpansPerBlock ==
    dim_rowmin # None =>
        /\ calculate_spans(Self).row_spans = ExpectedSpans
        /\ \A stale \in StaleSpans :
               calculate_spans([Self EXCEPT !.row_spans = stale]).row_spans
                   = ExpectedSpans
        /\ op = "_assemble_xml_file" => row_spans = ExpectedSpans

\* the claim's example, block 0 with cells in the columns 2 and 7 only, in a
\* second pass whose first pass wrote row 1 with the span "3:3"
C12_Witness ==
    /\ op = "_assemble_xml_file"
    /\ NumPasses(fh) = 2
    /\ Cells(table) = {<<0, 2>>, <<3, 7>>}
    /\ row_spans = 0 :> "3:8"
    /\ row_spans = ExpectedSpans
    /\ \E i \in DOMAIN fh :
           /\ fh[i].kind = "start" /\ fh[i].tag = "row"
           /\ fh[i].attrs = << <<"r", "1">>, <<"spans", "3:3">> >>

\* two blocks with their own spans: the columns of block 0 are not in the
\* span of block 1
C12_WitnessBlocks ==
    /\ op = "_assemble_xml_file"
    /\ Cells(table) = {<<0, 2>>, <<16, 4>>}
    /\ row_spans = 0 :> "3:3" @@ 1 :> "5:5"
====
